---- MODULE Spec2Model ----
(***************************************************************************)
(* A model of rsolr's Client (src/src/lib.rs): the request builder that    *)
(* accumulates a URL and a payload, and run(), which sends the request     *)
(* through the HTTP transport and classifies the reply; and of its Cursor  *)
(* (src/src/cursor.rs), whose next() pages through a result with the       *)
(* cursor marks of a scripted server.  URLs are real strings: path         *)
(* segments and query pairs are percent-encoded character by character, as *)
(* the url crate does for the calls the code makes.                        *)
(***************************************************************************)
EXTENDS Integers, Sequences, FiniteSets, TLC

\* client: the Client (request_handler, url, payload, collection, response).
\* last:   the most recent call on it: its name and, for run(), the request
\*         handed to the transport, the transport's reply and what run() returned.
\* calls:  the pairs the caller has asked the builder to append since the last
\*         run() that returned Ok (a history of the inputs, not a field).
\* cur:    the Cursor the caller got from run(), None while there is none.
\* server: the scripted server's answer to each cursor mark: the
\*         nextCursorMark it returns for the mark it is sent.
\* pages:  how many pages the cursor's next() has returned, the cursor mark
\*         sent by the run() that made the cursor, and the cursor marks the
\*         server has returned to that run() and to the next() calls, the
\*         last of them apart, and the URL that run() requested (a history,
\*         not a field).
\* expr:   what the caller builds with the query builder: the Term at hand,
\*         the Query it is putting together and a Query it has put aside.
\* facets: the FacetFields of a response: the flat array it holds for its
\*         one field, the field selected, and what the last get() returned.
VARIABLES client, last, calls, cur, server, pages, expr, facets

cvars == <<cur, server, pages>>

\* What the client and the cursor leave alone, and what the query builder and
\* the facet reader leave alone.
bvars == <<expr, facets>>
svars == <<client, last, calls, cur, server, pages>>

vars == <<client, last, calls, cur, server, pages, expr, facets>>

(* ------------------------------ bounds -------------------------------- *)

\* The builder stops appending once the query holds this many pairs.
MaxParams == 2

\* The caller stops calling next() once it has got this many pages.
MaxNext == 4

\* The caller applies at most this many modifiers to a Term.
MaxMods == 4

\* The caller appends to a Query until it has this many parts, nests a Query
\* that has at most MaxInner parts, and nests to at most this depth.
MaxParts == 3
MaxInner == 2
MaxDepth == 3

\* The facet array of a field holds at most this many elements.
MaxArray == 3

\* The caller stops calling update_cursor_mark once the query is this long.
MaxQuery == 24

(* ------------------------------ strings ------------------------------- *)

Char(s, i) == SubSeq(s, i, i)

Contains(s, sub) ==
    \E i \in 1..(Len(s) - Len(sub) + 1) : SubSeq(s, i, i + Len(sub) - 1) = sub

\* Index of the first occurrence of the one-character string ch in s, 0 if none.
IndexOf(s, ch) ==
    LET at == {i \in 1..Len(s) : Char(s, i) = ch}
    IN  IF at = {} THEN 0 ELSE CHOOSE i \in at : \A j \in at : i <= j

\* The bytes application/x-www-form-urlencoded leaves as they are.
FormUnreserved ==
    {"a","b","c","d","e","f","g","h","i","j","k","l","m","n","o","p","q","r",
     "s","t","u","v","w","x","y","z","A","B","C","D","E","F","G","H","I","J",
     "K","L","M","N","O","P","Q","R","S","T","U","V","W","X","Y","Z","0","1",
     "2","3","4","5","6","7","8","9","*","-",".","_"}

\* %XX of the other characters the model's inputs use.
PctCode ==
    (":" :> "%3A") @@ ("/" :> "%2F") @@ ("&" :> "%26") @@ ("=" :> "%3D") @@
    ("%" :> "%25") @@ ("+" :> "%2B") @@ ("?" :> "%3F") @@ (" " :> "%20")

\* form_urlencoded::byte_serialize, one character.
FormByte(ch) ==
    IF ch \in FormUnreserved THEN ch
    ELSE IF ch = " " THEN "+"
    ELSE PctCode[ch]

\* form_urlencoded::byte_serialize of s from its i-th character on.
RECURSIVE FormEncodeFrom(_, _)
FormEncodeFrom(s, i) ==
    IF i > Len(s) THEN "" ELSE FormByte(Char(s, i)) \o FormEncodeFrom(s, i + 1)

FormEncode(s) == FormEncodeFrom(s, 1)

\* The character a %XX triplet stands for; the triplet itself when it is none
\* of the model's.
PctDecode(t) ==
    IF \E ch \in DOMAIN PctCode : PctCode[ch] = t
    THEN CHOOSE ch \in DOMAIN PctCode : PctCode[ch] = t
    ELSE t

\* form_urlencoded::parse's decoding of one name or value, from the i-th
\* character on: "+" is a space, %XX is the character it encodes.
RECURSIVE FormDecodeFrom(_, _)
FormDecodeFrom(s, i) ==
    IF i > Len(s) THEN ""
    ELSE IF Char(s, i) = "+" THEN " " \o FormDecodeFrom(s, i + 1)
    ELSE IF Char(s, i) = "%" /\ i + 2 <= Len(s)
         THEN PctDecode(SubSeq(s, i, i + 2)) \o FormDecodeFrom(s, i + 3)
    ELSE Char(s, i) \o FormDecodeFrom(s, i + 1)

FormDecode(s) == FormDecodeFrom(s, 1)

\* The url crate's path segment encoding as PathSegmentsMut::push applies it:
\* "/" and "%" are encoded too, so one pushed string stays one segment.
SegmentByte(ch) ==
    IF ch \in {"/", "%", "?", " "} THEN PctCode[ch] ELSE ch

RECURSIVE SegmentEncodeFrom(_, _)
SegmentEncodeFrom(s, i) ==
    IF i > Len(s) THEN "" ELSE SegmentByte(Char(s, i)) \o SegmentEncodeFrom(s, i + 1)

SegmentEncode(s) == SegmentEncodeFrom(s, 1)

\* s split at every occurrence of the one-character string sep.
RECURSIVE Split(_, _)
Split(s, sep) ==
    LET i == IndexOf(s, sep)
    IN  IF i = 0 THEN <<s>>
        ELSE <<SubSeq(s, 1, i - 1)>> \o Split(SubSeq(s, i + 1, Len(s)), sep)

\* One "name=value" piece of a query as a decoded pair.
ParsePair(piece) ==
    LET i == IndexOf(piece, "=")
    IN  IF i = 0 THEN <<FormDecode(piece), "">>
        ELSE <<FormDecode(SubSeq(piece, 1, i - 1)),
               FormDecode(SubSeq(piece, i + 1, Len(piece)))>>

RECURSIVE ParsePieces(_)
ParsePieces(pieces) ==
    IF pieces = <<>> THEN <<>>
    ELSE IF Head(pieces) = "" THEN ParsePieces(Tail(pieces))
    ELSE <<ParsePair(Head(pieces))>> \o ParsePieces(Tail(pieces))

\* form_urlencoded::parse: the decoded pairs of a query string, in order.
ParseQuery(q) == ParsePieces(Split(q, "&"))

(* -------------------------------- Url --------------------------------- *)

\* Option values are sequences: <<>> is None, <<v>> is Some(v).
None == <<>>
Some(v) == <<v>>

\* Url::parse(base_url) of an origin: the path is "/", there is no query.
UrlParse(base_url) == [base |-> base_url, path |-> "/", query |-> None]

\* Url::as_str
UrlAsStr(u) ==
    u.base \o u.path \o (IF u.query = None THEN "" ELSE "?" \o u.query[1])

\* Url::query_pairs
query_pairs(u) == IF u.query = None THEN <<>> ELSE ParseQuery(u.query[1])

\* append_pair putting the new pair in front of the query instead of behind it.
append_pair_in_front(u, key, value) ==
    LET old  == IF u.query = None THEN "" ELSE u.query[1]
        pair == FormEncode(key) \o "=" \o FormEncode(value)
    IN  [u EXCEPT !.query = Some(IF old = "" THEN pair ELSE pair \o "&" \o old)]

\* Url::query_pairs_mut().append_pair(key, value): the query exists from now
\* on; "&" separates the pair from what is already there.
append_pair(u, key, value) ==
    LET old  == IF u.query = None THEN "" ELSE u.query[1]
        pair == FormEncode(key) \o "=" \o FormEncode(value)
    IN  [u EXCEPT !.query = Some(IF old = "" THEN pair ELSE old \o "&" \o pair)]

\* Url::query_pairs_mut().clear(): the query is emptied, not removed (the
\* same as set_query(Some(""))), so the serialization keeps its "?".
clear_query_pairs(u) == [u EXCEPT !.query = Some("")]

\* The segments written into the path as they are, "/" not encoded.
set_path_segments_unencoded(u, segs) ==
    [u EXCEPT !.path = "/" \o segs[1] \o "/" \o segs[2] \o "/" \o segs[3]]

\* Url::path_segments_mut().clear().push(a).push(b).push(c)
set_path_segments(u, segs) ==
    [u EXCEPT !.path = "/" \o SegmentEncode(segs[1]) \o "/"
                           \o SegmentEncode(segs[2]) \o "/"
                           \o SegmentEncode(segs[3])]

\* The url crate's query encoding as Url::parse and Url::set_query apply it:
\* a space becomes %20, what is already encoded stays as it is.
QueryByte(ch) == IF ch = " " THEN PctCode[ch] ELSE ch

RECURSIVE QueryEncodeFrom(_, _)
QueryEncodeFrom(s, i) ==
    IF i > Len(s) THEN "" ELSE QueryByte(Char(s, i)) \o QueryEncodeFrom(s, i + 1)

QueryEncode(s) == QueryEncodeFrom(s, 1)

\* Url::set_query(Some(q))
set_query(u, q) == [u EXCEPT !.query = Some(QueryEncode(q))]

\* Url::parse of a whole URL: the origin up to the first "/" or "?" behind
\* the scheme, the path up to "?" ("/" when there is none), the query behind
\* "?".  A string without an http scheme and a host is an error.
UrlParseStr(s) ==
    LET scheme == "http://"
        rest   == SubSeq(s, Len(scheme) + 1, Len(s))
        slash  == IndexOf(rest, "/")
        mark   == IndexOf(rest, "?")
        stop   == IF slash # 0 /\ (mark = 0 \/ slash < mark) THEN slash
                  ELSE IF mark # 0 THEN mark ELSE Len(rest) + 1
        tail   == SubSeq(rest, stop, Len(rest))
        qmark  == IndexOf(tail, "?")
        path   == IF qmark = 0 THEN tail ELSE SubSeq(tail, 1, qmark - 1)
    IN  IF Len(s) <= Len(scheme) \/ SubSeq(s, 1, Len(scheme)) # scheme \/ stop = 1
        THEN [ok |-> FALSE, url |-> [base |-> "", path |-> "", query |-> None]]
        ELSE [ok  |-> TRUE,
              url |-> [base  |-> scheme \o SubSeq(rest, 1, stop - 1),
                       path  |-> IF path = "" THEN "/" ELSE QueryEncode(path),
                       query |-> IF qmark = 0 THEN None
                                 ELSE Some(QueryEncode(SubSeq(tail, qmark + 1, Len(tail))))]]

(* ------------------------------ Payload ------------------------------- *)

\* JSON values the model sends: a document, or the delete command.
JsonNull == [kind |-> "null", query |-> "", id |-> 0]
JsonDoc(n) == [kind |-> "doc", query |-> "", id |-> n]
JsonDelete(q) == [kind |-> "delete", query |-> q, id |-> 0]

PayloadNone == [kind |-> "None", body |-> JsonNull]
PayloadEmpty == [kind |-> "Empty", body |-> JsonNull]
PayloadBody(v) == [kind |-> "Body", body |-> v]

(* ------------------------------- Client ------------------------------- *)

\* Client::new
ClientNew(base_url, collection) ==
    [request_handler |-> "",
     url             |-> UrlParse(base_url),
     payload         |-> PayloadNone,
     collection      |-> collection,
     response        |-> None]

\* Client::add_query_param
add_query_param(c, key, value) ==
    [c EXCEPT !.url = append_pair(c.url, key, value)]

\* Client::url_str
url_str(c) == UrlAsStr(c.url)

\* switch_on_facet without the scan: facet=on appended on every facet call.
switch_on_facet_always(c) ==
    [c EXCEPT !.url = append_pair(c.url, "facet", "on")]

\* Client::switch_on_facet: facet=on is appended unless a decoded pair
\* (facet, on) is already in the query.
switch_on_facet(c) ==
    IF LET pairs == query_pairs(c.url)
       IN  \E i \in 1..Len(pairs) : pairs[i] = <<"facet", "on">>
    THEN c
    ELSE [c EXCEPT !.url = append_pair(c.url, "facet", "on")]

\* Client::facet_field
facet_field(c, field) ==
    LET d == switch_on_facet(c)
    IN  [d EXCEPT !.url = append_pair(d.url, "facet_field", field)]

\* Client::facet_query
facet_query(c, query) ==
    LET d == switch_on_facet(c)
    IN  [d EXCEPT !.url = append_pair(d.url, "facet_query", query)]

\* request_handler pushing the handler behind the path it finds, without
\* clear().
request_handler_pushing(c, handler) ==
    [c EXCEPT !.request_handler = handler,
              !.payload = PayloadNone,
              !.url.path = (IF c.url.path = "/" THEN "" ELSE c.url.path)
                           \o "/" \o SegmentEncode(handler)]

\* Client::request_handler
request_handler(c, handler) ==
    [c EXCEPT !.request_handler = handler,
              !.payload = PayloadNone,
              !.url = set_path_segments(c.url, <<"solr", c.collection, handler>>)]

\* Client::auto_commit
auto_commit(c) == add_query_param(c, "commit", "true")

\* Client::sort
sort(c, s) == add_query_param(c, "sort", s)

\* Client::cursor
cursor(c) == add_query_param(c, "cursorMark", "*")

\* Client::rows; n.to_string() is given as the string.
rows(c, n) == add_query_param(c, "rows", n)

\* Client::query
query(c, q) == add_query_param(c, "q", q)

\* Client::payload
payload(c, p) == [c EXCEPT !.payload = p]

\* Client::set_document; serde_json::to_value of a JSON value is that value.
set_document(c, document) == payload(c, PayloadBody(document))

\* Client::set_empty_payload
set_empty_payload(c) == payload(c, PayloadEmpty)

\* Client::clear_payload
clear_payload(c) == payload(c, PayloadNone)

\* select() switching the handler but keeping the payload it finds.
select_keeping_payload(c, q) ==
    query([request_handler(c, "select") EXCEPT !.payload = c.payload], q)

\* Client::select
select(c, q) == query(request_handler(c, "select"), q)

\* create() starting from an emptied query.
create_clearing_params(c, document) ==
    set_document(request_handler([c EXCEPT !.url = clear_query_pairs(c.url)],
                                 "update/json/docs"),
                 document)

\* Client::create
create(c, document) ==
    set_document(request_handler(c, "update/json/docs"), document)

\* delete() starting from an emptied query.
delete_clearing_params(c, q) ==
    set_document(request_handler([c EXCEPT !.url = clear_query_pairs(c.url)],
                                 "update"),
                 JsonDelete(q))

\* Client::delete
delete(c, q) == set_document(request_handler(c, "update"), JsonDelete(q))

\* commit() without the Empty payload.
commit_without_payload(c) == auto_commit(request_handler(c, "update"))

\* Client::commit
commit(c) == set_empty_payload(auto_commit(request_handler(c, "update")))

\* What a builder call that can abort leaves: the client and "Ok", or "Panic"
\* when an expect() ends the program.
Built(c, result) == [client |-> c, result |-> result]

\* \w of the regex: letters, digits and "_".
WordChar == FormUnreserved \ {"*", "-", "."}

\* Where the regex (cursorMark=)(\w|\*) first matches in q, 0 if nowhere.
cursor_mark_match(q) ==
    LET key == "cursorMark="
        at  == {i \in 1..(Len(q) - Len(key)) :
                   /\ SubSeq(q, i, i + Len(key) - 1) = key
                   /\ Char(q, i + Len(key)) \in WordChar \cup {"*"}}
    IN  IF at = {} THEN 0 ELSE CHOOSE i \in at : \A j \in at : i <= j

\* The replacement that leaves the query as it is.
regex_replace_nothing(q, cursor_mark) == q

\* Regex::replace(query, "${1}<cursor_mark>"): the first match, which is
\* cursorMark= and ONE character behind it, becomes cursorMark=<cursor_mark>;
\* without a match the query is returned as it is.
regex_replace(q, cursor_mark) ==
    LET key == "cursorMark="
        i   == cursor_mark_match(q)
    IN  IF i = 0 THEN q
        ELSE SubSeq(q, 1, i - 1) \o key \o cursor_mark
                 \o SubSeq(q, i + Len(key) + 1, Len(q))

\* Client::update_cursor_mark: expect() aborts when the URL has no query.
update_cursor_mark(c, cursor_mark) ==
    IF c.url.query = None THEN Built(c, "Panic")
    ELSE Built([c EXCEPT !.url = set_query(c.url, regex_replace(c.url.query[1], cursor_mark))],
               "Ok")

\* Client::url: expect() aborts when the string does not parse as a URL.
url(c, s) ==
    LET p == UrlParseStr(s)
    IN  IF p.ok THEN Built([c EXCEPT !.url = p.url], "Ok") ELSE Built(c, "Panic")

(* ---------------------------- SolrResponse ---------------------------- *)

\* SolrResponse::default
DefaultSolrResponse ==
    [response |-> None, facet_counts |-> None, nextCursorMark |-> None]

\* serde_json::from_value::<SolrResponse<Value>>: the envelope's fields are
\* read from a JSON value that has the envelope's shape.
from_value(v) ==
    [response       |-> v.response,
     facet_counts   |-> v.facet_counts,
     nextCursorMark |-> v.nextCursorMark]

\* get_response() reporting a missing response as a decode failure.
get_response_needing_one(c) ==
    IF c.response = None THEN [ok |-> FALSE, value |-> DefaultSolrResponse]
    ELSE IF c.response[1].envelope
         THEN [ok |-> TRUE, value |-> from_value(c.response[1])]
         ELSE [ok |-> FALSE, value |-> DefaultSolrResponse]

\* A reader taking the stored response out of the client.
response_taken(c) == [c EXCEPT !.response = None]

\* The client as url_str(&self) and get_response(&self) leave it: the URL is
\* lent, the stored response cloned.
borrowed(c) == c

\* Client::get_response::<Value>
get_response(c) ==
    IF c.response = None THEN [ok |-> TRUE, value |-> DefaultSolrResponse]
    ELSE IF c.response[1].envelope
         THEN [ok |-> TRUE, value |-> from_value(c.response[1])]
         ELSE [ok |-> FALSE, value |-> DefaultSolrResponse]

\* get_response::<T>() decoding the docs as it decodes them into Value.
get_response_typed_lenient(c) ==
    IF c.response = None THEN [ok |-> TRUE, value |-> DefaultSolrResponse]
    ELSE IF c.response[1].envelope
         THEN [ok |-> TRUE, value |-> from_value(c.response[1])]
         ELSE [ok |-> FALSE, value |-> DefaultSolrResponse]

\* Client::get_response::<T> for the caller's document type T.
get_response_typed(c) ==
    IF c.response = None THEN [ok |-> TRUE, value |-> DefaultSolrResponse]
    ELSE IF c.response[1].envelope /\ c.response[1].docs_typed
         THEN [ok |-> TRUE, value |-> from_value(c.response[1])]
         ELSE [ok |-> FALSE, value |-> DefaultSolrResponse]

(* ------------------------------- Cursor ------------------------------- *)

\* Cursor::new(client, cursor_mark), as Client::run calls it.
CursorNew(c, cursor_mark) ==
    [client |-> c, cursor_mark |-> cursor_mark, url |-> None, the_end |-> FALSE]

\* Cursor::get_response answering for a client that holds no response.
cursor_get_response_unread(self) ==
    [ok |-> TRUE, value |-> DefaultSolrResponse]

\* Cursor::get_response::<Value> and ::<T>: the wrapped client's.
cursor_get_response(self) == get_response(self.client)
cursor_get_response_typed(self) == get_response_typed(self.client)

(* ----------------------------- transport ------------------------------ *)

\* A parsed JSON body, by the members the code reads: the envelope's fields
\* (envelope says whether the value has the shape of a SolrResponse), the
\* string at error.msg, and whether the docs decode into the caller's type T
\* (they always decode into Value).
Json(envelope, response, nextCursorMark, error_msg) ==
    [envelope       |-> envelope,
     response       |-> response,
     facet_counts   |-> None,
     nextCursorMark |-> nextCursorMark,
     error_msg      |-> error_msg,
     docs_typed     |-> TRUE]

Page == [numFound |-> 1, docs |-> <<"doc">>]

\* What HttpClient::get / HttpClient::post return: a transport failure, or a
\* status with a body; json is the body parsed as JSON, None when it is not JSON.
HttpReply(transport_ok, status, text, json) ==
    [transport_ok |-> transport_ok, status |-> status, text |-> text, json |-> json]

NetworkFailure == HttpReply(FALSE, 0, "", None)

PageReply ==
    HttpReply(TRUE, 200, "{response}", Some(Json(TRUE, Some(Page), None, None)))

PageMarkReply ==
    HttpReply(TRUE, 200, "{response,nextCursorMark}",
              Some(Json(TRUE, Some(Page), Some("AoE"), None)))

TextOkReply == HttpReply(TRUE, 200, "some unparseable thing", None)

NotFoundReply == HttpReply(TRUE, 404, "not found", None)

SolrErrorReply ==
    HttpReply(TRUE, 500, "{error:{code,msg}}",
              Some(Json(TRUE, None, None, Some("okapi"))))

\* Success statuses other than 200: the empty body of a 204, and a 201 with
\* a body that is not JSON.
NoContentReply == HttpReply(TRUE, 204, "", None)
CreatedReply == HttpReply(TRUE, 201, "created", None)

TextErrorReply == HttpReply(TRUE, 500, "some unparseable thing", None)

EmptyJsonErrorReply ==
    HttpReply(TRUE, 500, "{}", Some(Json(TRUE, None, None, None)))

\* A reply with a JSON body, its docs the ones that do not decode into the
\* caller's type T, or the ones that do.
Untyped(reply) == [reply EXCEPT !.json = Some([@[1] EXCEPT !.docs_typed = FALSE])]
Typed(reply) ==
    IF reply.json = None THEN reply
    ELSE [reply EXCEPT !.json = Some([@[1] EXCEPT !.docs_typed = TRUE])]

Replies ==
    {NetworkFailure, PageReply, PageMarkReply, TextOkReply,
     NotFoundReply, SolrErrorReply, TextErrorReply, EmptyJsonErrorReply,
     Untyped(PageReply)}

(* -------------------------------- run --------------------------------- *)

\* RSolrError values.
NoError == [kind |-> "", msg |-> "", status |-> 0, body_text |-> ""]
NetworkError == [kind |-> "Network", msg |-> "", status |-> 0, body_text |-> ""]
NotFoundError == [kind |-> "NotFound", msg |-> "", status |-> 0, body_text |-> ""]
SyntaxError(msg) == [kind |-> "Syntax", msg |-> msg, status |-> 0, body_text |-> ""]
OtherError(status, body_text) ==
    [kind |-> "Other", msg |-> "", status |-> status, body_text |-> body_text]
SerializationError ==
    [kind |-> "Serialization", msg |-> "", status |-> 0, body_text |-> ""]

\* The verb picked from the body alone: an Empty payload goes out as GET.
verb_of_body_only(p) == IF p.kind = "Body" THEN "POST" ELSE "GET"

\* The verb run() picks from the payload.
verb_of(p) == IF p.kind \in {"Body", "Empty"} THEN "POST" ELSE "GET"

\* The body run() hands to the transport.
body_of(p) == IF p.kind = "Body" THEN Some(p.body) ELSE None

\* The request run() sends.
Request(c) ==
    [verb |-> verb_of(c.payload), url |-> url_str(c), body |-> body_of(c.payload)]

\* What a call of run() leaves: the client, the kind of result ("Ok", "Err",
\* or "Panic" when an unwrap aborts the call), the error, the cursor.
Outcome(c, result, error, made) ==
    [client |-> c, result |-> result, error |-> error, cursor |-> made]

\* run(), transport failure.
run_network_error(c) == Outcome(c, "Err", NetworkError, None)

\* The test run() makes to decide for a cursor.
has_cursor_mark(c) ==
    Contains(IF c.url.query = None THEN "no url" ELSE c.url.query[1], "cursorMark")

\* run() leaving the params in place after a 200.
clear_params_forgotten(c) == c

\* run() resetting the payload with the params after a 200.
clear_params_and_payload(c) ==
    [c EXCEPT !.url = clear_query_pairs(c.url), !.payload = PayloadNone]

\* run(), the params cleared after a 200.
clear_params(c) == [c EXCEPT !.url = clear_query_pairs(c.url)]

\* run() handing the cursor the client as run() leaves it, the params
\* cleared.
run_ok_cursor_sharing(c) ==
    LET r == get_response(c)
    IN  IF ~r.ok \/ r.value.nextCursorMark = None
        THEN Outcome(c, "Panic", NoError, None)
        ELSE Outcome(clear_params(c), "Ok", NoError,
                     Some(CursorNew(clear_params(c), r.value.nextCursorMark[1])))

\* run(), status 200 on a URL with cursorMark: both unwraps abort the call
\* when the stored response gives no nextCursorMark.
run_ok_cursor(c) ==
    LET r == get_response(c)
    IN  IF ~r.ok \/ r.value.nextCursorMark = None
        THEN Outcome(c, "Panic", NoError, None)
        ELSE Outcome(clear_params(c), "Ok", NoError,
                     Some(CursorNew(c, r.value.nextCursorMark[1])))

\* run() keeping the response it holds when the body of a 200 is not JSON.
run_ok_keeping_response(c, reply) ==
    LET d == IF reply.json = None THEN c ELSE [c EXCEPT !.response = reply.json]
    IN  IF has_cursor_mark(d) THEN run_ok_cursor(d)
        ELSE Outcome(clear_params(d), "Ok", NoError, None)

\* run(), status 200.
run_ok(c, reply) ==
    LET d == [c EXCEPT !.response = reply.json]
    IN  IF has_cursor_mark(d) THEN run_ok_cursor(d)
        ELSE Outcome(clear_params(d), "Ok", NoError, None)

\* run() clearing the params on a 404 as it does on a 200.
run_not_found_clearing(c) ==
    Outcome(clear_params(c), "Err", NotFoundError, None)

\* run(), status 404.
run_not_found(c) == Outcome(c, "Err", NotFoundError, None)

\* run(), any other status.
run_other_status(c, reply) ==
    IF reply.json = None
    THEN Outcome(c, "Err", OtherError(reply.status, reply.text), None)
    ELSE IF reply.json[1].error_msg = None
         THEN Outcome(c, "Panic", NoError, None)
         ELSE Outcome(c, "Err", SyntaxError(reply.json[1].error_msg[1]), None)

\* Client::run, given what the transport returns for the request.
run(c, reply) ==
    IF ~reply.transport_ok THEN run_network_error(c)
    ELSE IF reply.status = 200 THEN run_ok(c, reply)
    ELSE IF reply.status = 404 THEN run_not_found(c)
    ELSE run_other_status(c, reply)

(* ---------------------------- Cursor::next ---------------------------- *)

\* What a call of next() leaves: the cursor, the kind of result ("Some" for
\* Ok(Some(page)), "None" for Ok(None), "Err", or "Panic"), the error, the
\* request it sent (verb "" when it sent none), the nextCursorMark read and
\* the page returned in Ok(Some(page)).
Stepped(self, result, error, request, mark, page) ==
    [cursor |-> self, result |-> result, error |-> error,
     request |-> request, mark |-> mark, page |-> page]

NoRequest == [verb |-> "", url |-> "", body |-> None]

\* next() writing the cursor mark into whatever URL the client holds, the
\* snapshot taken but never restored.
next_prepare_unrestored(self) ==
    LET snapshot == IF self.url = None
                    THEN Some(UrlParseStr(url_str(self.client)).url)
                    ELSE self.url
        marked   == update_cursor_mark(self.client, self.cursor_mark)
    IN  [cursor |-> [self EXCEPT !.url = snapshot, !.client = marked.client],
         result |-> marked.result]

\* next(), first part: the URL is snapshotted on the first call and restored
\* on the later ones, then the cursor mark is written into it.
next_prepare(self) ==
    LET snapshot == IF self.url = None
                    THEN Some(UrlParseStr(url_str(self.client)).url)
                    ELSE self.url
        restored == IF self.url = None THEN Built(self.client, "Ok")
                    ELSE url(self.client, UrlAsStr(self.url[1]))
        marked   == update_cursor_mark(restored.client, self.cursor_mark)
    IN  [cursor |-> [self EXCEPT !.url = snapshot, !.client = marked.client],
         result |-> IF restored.result = "Panic" THEN "Panic" ELSE marked.result]

\* The request next() sends.
next_request(self) == Request(next_prepare(self).cursor.client)

\* next() taking no cursor for exhausted.
next_exhausted_ignored(self) == FALSE

\* next(), the test that ends it at once.
next_exhausted(self) == self.the_end

\* next() never taking a repeated mark for the end.
next_the_end_never(cursor_mark, next_cursor_mark) == FALSE

\* next(), the test that sets the_end.
next_the_end(cursor_mark, next_cursor_mark) == cursor_mark = next_cursor_mark

\* next() taking over the nextCursorMark before the typed response is read.
next_ran_advancing(self, ready, sent, r) ==
    LET after == [ready EXCEPT !.client = r.client]
        v     == get_response(r.client)
        g     == get_response_typed(r.client)
    IN  IF r.result = "Panic" THEN Stepped(after, "Panic", NoError, sent, None, None)
        ELSE IF r.result = "Err" THEN Stepped(after, "Err", r.error, sent, None, None)
        ELSE IF v.value.nextCursorMark = None
             THEN Stepped(after, "Panic", NoError, sent, None, None)
        ELSE IF ~g.ok
             THEN Stepped([after EXCEPT !.cursor_mark = v.value.nextCursorMark[1]],
                          "Err", SerializationError, sent, None, None)
        ELSE Stepped([after EXCEPT
                         !.the_end = next_the_end(self.cursor_mark,
                                                  v.value.nextCursorMark[1]),
                         !.cursor_mark = v.value.nextCursorMark[1]],
                     "Some", NoError, sent, v.value.nextCursorMark, Some(g.value))

\* next(), from the result of run() on: Err is passed on, the typed
\* response is read, expect() aborts when it has no nextCursorMark.
next_ran(self, ready, sent, r) ==
    LET after == [ready EXCEPT !.client = r.client]
        g     == get_response_typed(r.client)
    IN  IF r.result = "Panic" THEN Stepped(after, "Panic", NoError, sent, None, None)
        ELSE IF r.result = "Err" THEN Stepped(after, "Err", r.error, sent, None, None)
        ELSE IF ~g.ok THEN Stepped(after, "Err", SerializationError, sent, None, None)
        ELSE IF g.value.nextCursorMark = None
             THEN Stepped(after, "Panic", NoError, sent, None, None)
        ELSE Stepped([after EXCEPT
                         !.the_end = next_the_end(self.cursor_mark,
                                                  g.value.nextCursorMark[1]),
                         !.cursor_mark = g.value.nextCursorMark[1]],
                     "Some", NoError, sent, g.value.nextCursorMark, Some(g.value))

\* next(), from the prepared client on: the request is sent with run().
next_send(self, prep, reply) ==
    IF prep.result = "Panic"
    THEN Stepped(prep.cursor, "Panic", NoError, NoRequest, None, None)
    ELSE next_ran(self, prep.cursor, Request(prep.cursor.client),
                  run(prep.cursor.client, reply))

\* next() taking the_end back once it has reported the end.
next_resetting(self, reply) ==
    IF next_exhausted(self)
    THEN Stepped([self EXCEPT !.the_end = FALSE], "None", NoError, NoRequest, None, None)
    ELSE next_send(self, next_prepare(self), reply)

\* Cursor::next, given what the transport returns for the request.
next(self, reply) ==
    IF next_exhausted(self) THEN Stepped(self, "None", NoError, NoRequest, None, None)
    ELSE next_send(self, next_prepare(self), reply)

(* ------------------------------- inputs ------------------------------- *)

BaseUrl == "http://h:8983"
Collection == "c"
Handlers == {"mlt", "update/json/docs"}
ParamInputs == {<<"fq", "a&b=c d">>}
QueryStrings == {"*:*", "cursorMark"}
FacetFieldInputs == {"f1"}
FacetQueryInputs == {"g:1"}
Documents == {JsonDoc(1)}
Marks == {"*", "B", "C", "AoE"}
NewMarks == {"B", "AoE"}
DocTypes == {"Value", "T"}
UrlInputs == {"http://h:8983/solr/c/select?q=a b&cursorMark=*", "solr/c/select"}

(* ------------------------- Term and Query ----------------------------- *)

\* Term, by its two fields.
Term(text, field) == [term |-> text, field |-> field]

\* Term::from_str: a string with a space in it is quoted.
from_str(term_str) ==
    IF Contains(term_str, " ") THEN Term("\"" \o term_str \o "\"", None)
    ELSE Term(term_str, None)

\* Term::in_field
in_field(t, field) == [t EXCEPT !.field = Some(field)]

\* Term::boost; value.to_string() is given as the string.
boost(t, value) == [t EXCEPT !.term = @ \o "^" \o value]

\* Term::tilde; value.to_string() is given as the string.
tilde(t, value) == [t EXCEPT !.term = @ \o "~" \o value]

\* Term::required
required(t) == [t EXCEPT !.term = "+" \o @]

\* Term::prohibit
prohibit(t) == [t EXCEPT !.term = "-" \o @]

\* Term as Stringable: as_str
term_as_str(t) ==
    IF t.field = None THEN t.term ELSE t.field[1] \o ": " \o t.term

\* The parts of a Query: a Term, And, Or, or a Query (by its parts).
TermPart(t) == [kind |-> "term", term |-> t, parts |-> <<>>]
AndPart == [kind |-> "and", term |-> Term("", None), parts |-> <<>>]
OrPart == [kind |-> "or", term |-> Term("", None), parts |-> <<>>]
SubqueryPart(parts) == [kind |-> "query", term |-> Term("", None), parts |-> parts]

\* Query::from_term, Query::term, Query::and, Query::or, Query::subquery,
\* a Query given by its parts.
from_term(t) == <<TermPart(t)>>
query_term(parts, t) == Append(parts, TermPart(t))
query_and(parts) == Append(parts, AndPart)
query_or(parts) == Append(parts, OrPart)
subquery(parts, inner) == Append(parts, SubqueryPart(inner))

\* Stringable::is_query
is_query(part) == part.kind = "query"

\* Query as Stringable: as_str, the loop over the parts from part i on, with
\* the text rendered so far; and as_str of any part.
RECURSIVE query_as_str_from(_, _, _)
RECURSIVE part_as_str(_)
query_as_str_from(parts, i, so_far) ==
    IF i > Len(parts) THEN so_far
    ELSE query_as_str_from(
             parts, i + 1,
             IF Len(so_far) = 0 THEN part_as_str(parts[i])
             ELSE IF is_query(parts[i])
                  THEN so_far \o " (" \o part_as_str(parts[i]) \o ")"
                  ELSE so_far \o " " \o part_as_str(parts[i]))

part_as_str(part) ==
    IF part.kind = "term" THEN term_as_str(part.term)
    ELSE IF part.kind = "and" THEN "AND"
    ELSE IF part.kind = "or" THEN "OR"
    ELSE query_as_str_from(part.parts, 1, "")

query_as_str(parts) == query_as_str_from(parts, 1, "")

(* ---------------------------- FacetFields ----------------------------- *)

\* The elements of a facet array: JSON strings and JSON numbers.
JsonStr(text) == [kind |-> "str", str |-> text, num |-> 0]
JsonNum(n) == [kind |-> "num", str |-> "", num |-> n]

\* FacetFields, by the one member its fields object holds (its name and its
\* array) and the field selected.
FacetFields(name, array) == [name |-> name, array |-> array, field |-> ""]

\* FacetFields::field
facet_field_select(f, value) == [f EXCEPT !.field = value]

\* self.fields[&self.field].as_array(): None for a member the object lacks.
facet_array(f) == IF f.field = f.name THEN Some(f.array) ELSE None

\* Value::as_u64
as_u64(v) == IF v.kind = "num" THEN Some(v.num) ELSE None

\* What get() returns: "Some" with the count, "None", or "Panic" when an
\* unwrap aborts the call.
Got(result, count) == [result |-> result, count |-> count]

\* FacetFields::get, the loop from element i on: the element behind the first
\* string equal to key is unwrapped and read as a number.
RECURSIVE get_from(_, _, _)
get_from(array, i, key) ==
    IF i > Len(array) THEN Got("None", 0)
    ELSE IF array[i].kind = "str" /\ array[i].str = key
         THEN IF i + 1 > Len(array) THEN Got("Panic", 0)
              ELSE LET n == as_u64(array[i + 1])
                   IN  IF n = None THEN Got("None", 0) ELSE Got("Some", n[1])
         ELSE get_from(array, i + 1, key)

\* FacetFields::get
facet_get(f, key) ==
    IF facet_array(f) = None THEN Got("None", 0)
    ELSE get_from(facet_array(f)[1], 1, key)

\* What the caller of the query builder and of FacetFields puts in.
TermStrings == {"a b", "t", ""}
FieldNames == {"f"}
BoostValues == {"2"}
TildeValues == {"3"}
QueryTerms == {from_str("t"), from_str("")}
FacetNames == {"f", "g"}
FacetKeys == {"a", "b"}
FacetElements == {JsonStr("a"), JsonStr("b"), JsonNum(7)}

(* --------------------------- state machine ---------------------------- *)

\* last: the most recent call, with what run() sent, got and returned, and
\* the envelope get_response() or next() returned.
Called(op) ==
    [op |-> op, arg |-> "", request |-> NoRequest, reply |-> NetworkFailure,
     result |-> "", error |-> NoError, cursor |-> None,
     value |-> DefaultSolrResponse, text |-> ""]

NoPages == [count |-> 0, sent |-> None, marks |-> {}, got |-> None, made |-> ""]

\* No Term or Query built, no facets read.
NoExpr == [op |-> "", term |-> Term("", None), from |-> "", mods |-> <<>>, query |-> <<>>]
NoFacets == [op |-> "", fields |-> FacetFields("", <<>>), key |-> "", got |-> Got("", 0)]

\* A server that echoes every mark.
EchoServer == [m \in Marks |-> m]

Init ==
    /\ client = ClientNew(BaseUrl, Collection)
    /\ last = Called("new")
    /\ calls = <<>>
    /\ cur = None
    /\ server = EchoServer
    /\ pages = NoPages
    /\ expr = NoExpr
    /\ facets = NoFacets

\* A panic ends the program.
Alive == last.result # "Panic"

CanAppend == Alive /\ Len(calls) < MaxParams

\* The builder call op, which appends the pair kv.
Appends(op, c, kv) ==
    /\ CanAppend
    /\ client' = c
    /\ calls' = Append(calls, kv)
    /\ last' = Called(op)
    /\ UNCHANGED <<cvars, bvars>>

\* The builder call op, which appends nothing.
Sets(op, c) ==
    /\ Alive
    /\ client' = c
    /\ last' = Called(op)
    /\ UNCHANGED <<calls, cur, server, pages, bvars>>

AddQueryParam ==
    \E kv \in ParamInputs : Appends("add_query_param", add_query_param(client, kv[1], kv[2]), kv)

Query == \E q \in QueryStrings : Appends("query", query(client, q), <<"q", q>>)

CursorCall == Appends("cursor", cursor(client), <<"cursorMark", "*">>)

AutoCommit == Appends("auto_commit", auto_commit(client), <<"commit", "true">>)

FacetField ==
    \E f \in FacetFieldInputs : Appends("facet_field", facet_field(client, f), <<"facet_field", f>>)

FacetQuery ==
    \E g \in FacetQueryInputs : Appends("facet_query", facet_query(client, g), <<"facet_query", g>>)

RequestHandler == \E h \in Handlers : Sets("request_handler", request_handler(client, h))

SetDocument == \E d \in Documents : Sets("set_document", set_document(client, d))

SetEmptyPayload == Sets("set_empty_payload", set_empty_payload(client))

ClearPayload == Sets("clear_payload", clear_payload(client))

Select == Appends("select", select(client, "*:*"), <<"q", "*:*">>)

Create == \E d \in Documents : Sets("create", create(client, d))

Delete == Sets("delete", delete(client, "*:*"))

Commit == Appends("commit", commit(client), <<"commit", "true">>)

Run ==
    \E reply \in Replies :
        LET r == run(client, reply)
        IN  /\ Alive
            /\ client' = r.client
            /\ last' = [op |-> "run", arg |-> "", request |-> Request(client),
                        reply |-> reply, result |-> r.result, error |-> r.error,
                        cursor |-> r.cursor, value |-> DefaultSolrResponse,
                        text |-> ""]
            /\ calls' = IF r.result = "Ok" THEN <<>> ELSE calls
            /\ UNCHANGED <<cvars, bvars>>

\* get_response::<Value>() or get_response::<T>() on the client.
GetResponse ==
    \E T \in DocTypes :
        LET g == IF T = "Value" THEN get_response(client)
                 ELSE get_response_typed(client)
        IN  /\ Alive
            /\ last' = [Called("get_response") EXCEPT
                            !.arg = T,
                            !.result = IF g.ok THEN "Ok" ELSE "Err",
                            !.error = IF g.ok THEN NoError ELSE SerializationError,
                            !.value = g.value]
            /\ client' = borrowed(client)
            /\ UNCHANGED <<calls, cur, server, pages, bvars>>

\* url_str() on the client.
UrlStr ==
    /\ Alive
    /\ last' = [Called("url_str") EXCEPT !.text = url_str(client)]
    /\ client' = borrowed(client)
    /\ UNCHANGED <<calls, cur, server, pages, bvars>>

Next ==
    \/ AddQueryParam
    \/ Query
    \/ CursorCall
    \/ AutoCommit
    \/ FacetField
    \/ FacetQuery
    \/ RequestHandler
    \/ SetDocument
    \/ SetEmptyPayload
    \/ ClearPayload
    \/ Select
    \/ Create
    \/ Delete
    \/ Commit
    \/ Run
    \/ GetResponse
    \/ UrlStr

Spec == Init /\ [][Next]_vars

(* ------------------------ statuses other than 200 --------------------- *)

\* What the transport may return to run() here: a page, a Solr error, and
\* the success statuses other than 200.
StatusReplies == {PageReply, SolrErrorReply, NoContentReply, CreatedReply}

RunStatus ==
    \E reply \in StatusReplies :
        LET r == run(client, reply)
        IN  /\ Alive
            /\ client' = r.client
            /\ last' = [op |-> "run", arg |-> "", request |-> Request(client),
                        reply |-> reply, result |-> r.result, error |-> r.error,
                        cursor |-> r.cursor, value |-> DefaultSolrResponse,
                        text |-> ""]
            /\ calls' = IF r.result = "Ok" THEN <<>> ELSE calls
            /\ UNCHANGED <<cvars, bvars>>

StatusNext ==
    \/ AddQueryParam
    \/ Select
    \/ Create
    \/ Delete
    \/ Commit
    \/ RunStatus

StatusSpec == Init /\ [][StatusNext]_vars

(* ------------------------ paging with a cursor ------------------------ *)

\* The pages the scripted server returns: the next cursor mark with docs
\* that decode into the caller's type, or with docs that do not.
MarkReply(mark) ==
    HttpReply(TRUE, 200, "{response,nextCursorMark}",
              Some(Json(TRUE, Some(Page), Some(mark), None)))

UntypedMarkReply(mark) ==
    HttpReply(TRUE, 200, "{response,nextCursorMark}",
              Some([Json(TRUE, Some(Page), Some(mark), None) EXCEPT !.docs_typed = FALSE]))

\* The cursorMark parameter of a request as the server decodes it, None when
\* the URL has none.
SentMark(request) ==
    LET pairs == query_pairs(UrlParseStr(request.url).url)
        at    == {i \in 1..Len(pairs) : pairs[i][1] = "cursorMark"}
    IN  IF at = {} THEN None
        ELSE Some(pairs[CHOOSE i \in at : \A j \in at : i <= j][2])

\* The scripted server's answer to a request: the page behind the mark it
\* was sent, a page without nextCursorMark when no mark was sent, an error
\* when the mark is none of the server's.
ServerPage(request) ==
    LET m == SentMark(request)
    IN  IF m = None THEN PageReply
        ELSE IF m[1] \in Marks THEN MarkReply(server[m[1]])
        ELSE SolrErrorReply

\* What the transport may return to run(): the server's answer, or a failure.
RunReplies(request) == {ServerPage(request), NetworkFailure}

\* What the transport may return to next(): the server's answer, the same
\* page with docs that do not decode into the caller's type, or a failure.
AroundPage(page) ==
    {page, NetworkFailure, TextErrorReply, EmptyJsonErrorReply}
        \cup (IF page.json[1].nextCursorMark = None THEN {}
              ELSE {UntypedMarkReply(page.json[1].nextCursorMark[1])})

NextReplies(request) == AroundPage(ServerPage(request))

ThreePages == ("*" :> "B") @@ ("B" :> "C") @@ ("C" :> "C") @@ ("AoE" :> "B")

\* A server with a mark of several characters, and one that never repeats
\* the mark it is sent.
LongMarkPages == ("*" :> "AoE") @@ ("AoE" :> "B") @@ ("B" :> "B") @@ ("C" :> "C")
EndlessPages == ("*" :> "B") @@ ("B" :> "C") @@ ("C" :> "B") @@ ("AoE" :> "B")

Scripts == {ThreePages, LongMarkPages, EchoServer, EndlessPages}

CursorInit ==
    /\ client = ClientNew(BaseUrl, Collection)
    /\ last = Called("new")
    /\ calls = <<>>
    /\ cur = None
    /\ server \in Scripts
    /\ pages = NoPages
    /\ expr = NoExpr
    /\ facets = NoFacets

\* The caller builds the request until run() hands out a cursor.
BuildSelect == cur = None /\ Select

BuildCursor == cur = None /\ CursorCall

UpdateCursorMark ==
    \E m \in NewMarks :
        LET b == update_cursor_mark(client, m)
        IN  /\ Alive
            /\ cur = None
            /\ client.url.query # None => Len(client.url.query[1]) < MaxQuery
            /\ client' = b.client
            /\ last' = [Called("update_cursor_mark") EXCEPT !.arg = m, !.result = b.result]
            /\ UNCHANGED <<calls, cur, server, pages, bvars>>

Url ==
    \E u \in UrlInputs :
        LET b == url(client, u)
        IN  /\ Alive
            /\ cur = None
            /\ client' = b.client
            /\ last' = [Called("url") EXCEPT !.arg = u, !.result = b.result]
            /\ UNCHANGED <<calls, cur, server, pages, bvars>>

\* run() against the scripted server; the caller keeps the first cursor a
\* run() returns.
CursorRun ==
    \E reply \in RunReplies(Request(client)) :
        LET r == run(client, reply)
        IN  /\ Alive
            /\ client' = r.client
            /\ last' = [op |-> "run", arg |-> "", request |-> Request(client),
                        reply |-> reply, result |-> r.result, error |-> r.error,
                        cursor |-> r.cursor, value |-> DefaultSolrResponse,
                        text |-> ""]
            /\ calls' = IF r.result = "Ok" THEN <<>> ELSE calls
            /\ cur' = IF cur = None THEN r.cursor ELSE cur
            /\ pages' = IF cur # None THEN pages
                        ELSE IF r.cursor = None THEN NoPages
                        ELSE [count |-> 0, sent |-> SentMark(Request(client)),
                              marks |-> {r.cursor[1].cursor_mark},
                              got |-> reply.json[1].nextCursorMark,
                              made |-> Request(client).url]
            /\ UNCHANGED <<server, bvars>>

\* The run() that makes the cursor.
PagingRun == cur = None /\ CursorRun

\* What a call of next() that left n is recorded as.
NextCalled(n, reply) ==
    [op |-> "next", arg |-> "", request |-> n.request,
     reply |-> reply, result |-> n.result, error |-> n.error,
     cursor |-> None,
     value |-> IF n.page = None THEN DefaultSolrResponse ELSE n.page[1],
     text |-> ""]

\* cursor.next(), the transport returning reply.
NextGiven(reply) ==
    LET n == next(cur[1], reply)
    IN  /\ cur' = Some(n.cursor)
        /\ pages' = IF n.result = "Some"
                    THEN [pages EXCEPT !.count = @ + 1,
                                        !.marks = @ \cup {n.mark[1]},
                                        !.got = reply.json[1].nextCursorMark]
                    ELSE pages
        /\ last' = NextCalled(n, reply)
        /\ UNCHANGED <<client, calls, server, bvars>>

\* The caller holds a cursor and calls next() on it.
NextCallable ==
    /\ Alive
    /\ cur # None
    /\ pages.count < MaxNext \/ cur[1].the_end

\* cursor.next() against the scripted server.
CursorNext ==
    /\ NextCallable
    /\ \E reply \in NextReplies(next_request(cur[1])) : NextGiven(reply)

\* cursor.next() against the scripted server, the transport never failing
\* and the pages decoding into the caller's type.
CursorNextPage ==
    /\ NextCallable
    /\ NextGiven(ServerPage(next_request(cur[1])))

\* CursorNextPage can be taken and changes the state: what
\* ENABLED <<CursorNextPage>>_vars amounts to.
NextPageEnabled ==
    /\ NextCallable
    /\ LET reply == ServerPage(next_request(cur[1]))
           n     == next(cur[1], reply)
       IN  \/ Some(n.cursor) # cur
           \/ n.result = "Some"
           \/ NextCalled(n, reply) # last

PagingNext ==
    \/ BuildSelect
    \/ BuildCursor
    \/ UpdateCursorMark
    \/ Url
    \/ PagingRun
    \/ CursorNext

CursorSpec == CursorInit /\ [][PagingNext]_vars

\* Paging without transport or decode errors, by a caller that goes on
\* calling next().
LoopNext ==
    \/ BuildSelect
    \/ BuildCursor
    \/ UpdateCursorMark
    \/ Url
    \/ PagingRun
    \/ CursorNextPage

\* The caller's loop goes on calling next(): weak fairness of CursorNextPage,
\* WF_vars(CursorNextPage) with ENABLED written as the state predicate above.
LoopFairness == []<>(~NextPageEnabled) \/ []<><<CursorNextPage>>_vars

LoopSpec == CursorInit /\ [][LoopNext]_vars /\ LoopFairness

(* ------------------- a client and the cursor it made ------------------ *)

\* The caller goes on with the client while it pages with the cursor.
SharedInit ==
    /\ client = ClientNew(BaseUrl, Collection)
    /\ last = Called("new")
    /\ calls = <<>>
    /\ cur = None
    /\ server = ThreePages
    /\ pages = NoPages
    /\ expr = NoExpr
    /\ facets = NoFacets

SharedNext ==
    \/ Select
    \/ BuildCursor
    \/ CursorRun
    \/ CursorNext

SharedSpec == SharedInit /\ [][SharedNext]_vars

(* --------------------------- building a Term -------------------------- *)

\* The client before any call, which the query builder never touches.
Untouched ==
    /\ client = ClientNew(BaseUrl, Collection)
    /\ last = Called("new")
    /\ calls = <<>>
    /\ cur = None
    /\ server = EchoServer
    /\ pages = NoPages

\* expr.from is the string given to Term::from_str, expr.mods the modifiers
\* applied since, in order (a history).
TermInit ==
    /\ Untouched
    /\ facets = NoFacets
    /\ \E s \in TermStrings :
           expr = [NoExpr EXCEPT !.op = "from_str", !.term = from_str(s), !.from = s]

Modified(op, t) ==
    /\ Len(expr.mods) < MaxMods
    /\ expr' = [expr EXCEPT !.op = op, !.term = t, !.mods = Append(@, op)]
    /\ UNCHANGED <<svars, facets>>

InField == \E f \in FieldNames : Modified("in_field", in_field(expr.term, f))

Boost == \E v \in BoostValues : Modified("boost", boost(expr.term, v))

Tilde == \E v \in TildeValues : Modified("tilde", tilde(expr.term, v))

Required == Modified("required", required(expr.term))

Prohibit == Modified("prohibit", prohibit(expr.term))

TermNext ==
    \/ InField
    \/ Boost
    \/ Tilde
    \/ Required
    \/ Prohibit

TermSpec == TermInit /\ [][TermNext]_vars

(* -------------------------- building a Query -------------------------- *)

\* How deep the subqueries of a Query nest: 1 for a Query without any.
RECURSIVE Depth(_)
Depth(parts) ==
    LET inner == {i \in 1..Len(parts) : is_query(parts[i])}
        deeper == {Depth(parts[i].parts) : i \in inner}
    IN  IF inner = {} THEN 1
        ELSE 1 + CHOOSE d \in deeper : \A e \in deeper : e <= d

QueryInit ==
    /\ Untouched
    /\ facets = NoFacets
    /\ \E t \in QueryTerms :
           expr = [NoExpr EXCEPT !.op = "from_term", !.query = from_term(t)]

Composed(op, parts) ==
    /\ Len(expr.query) < MaxParts
    /\ expr' = [expr EXCEPT !.op = op, !.query = parts]
    /\ UNCHANGED <<svars, facets>>

QueryTerm == \E t \in QueryTerms : Composed("term", query_term(expr.query, t))

QueryAnd == Composed("and", query_and(expr.query))

QueryOr == Composed("or", query_or(expr.query))

\* Query::from_term(t).subquery(q) and Query::from_term(t).or().subquery(q),
\* q the Query built so far.
Nested(op, outer) ==
    /\ Len(expr.query) <= MaxInner
    /\ Depth(expr.query) < MaxDepth
    /\ expr' = [expr EXCEPT !.op = op, !.query = subquery(outer, expr.query)]
    /\ UNCHANGED <<svars, facets>>

Subquery == \E t \in QueryTerms : Nested("subquery", from_term(t))

OrSubquery == \E t \in QueryTerms : Nested("or subquery", query_or(from_term(t)))

QueryNext ==
    \/ QueryTerm
    \/ QueryAnd
    \/ QueryOr
    \/ Subquery
    \/ OrSubquery

QuerySpec == QueryInit /\ [][QueryNext]_vars

(* --------------------------- reading facets --------------------------- *)

RECURSIVE ArraysOf(_)
ArraysOf(n) ==
    IF n = 0 THEN {<<>>}
    ELSE LET shorter == ArraysOf(n - 1)
         IN  shorter \cup {Append(a, e) : a \in shorter, e \in FacetElements}

FacetInit ==
    /\ Untouched
    /\ expr = NoExpr
    /\ \E a \in ArraysOf(MaxArray) :
           facets = [NoFacets EXCEPT !.op = "new", !.fields = FacetFields("f", a)]

SelectField ==
    \E name \in FacetNames :
        /\ facets' = [facets EXCEPT !.op = "field",
                                    !.fields = facet_field_select(@, name)]
        /\ UNCHANGED <<svars, expr>>

FacetGet ==
    \E key \in FacetKeys :
        /\ facets.got.result # "Panic"
        /\ facets' = [facets EXCEPT !.op = "get", !.key = key,
                                    !.got = facet_get(facets.fields, key)]
        /\ UNCHANGED <<svars, expr>>

FacetNext ==
    \/ SelectField
    \/ FacetGet

FacetSpec == FacetInit /\ [][FacetNext]_vars

(* ------------------------- reading a sent URL ------------------------- *)

\* The query part of a URL string: what follows the first "?".
QueryPart(u) ==
    LET i == IndexOf(u, "?")
    IN  IF i = 0 THEN "" ELSE SubSeq(u, i + 1, Len(u))

\* The decoded pairs of a URL string.
PairsOf(u) == ParseQuery(QueryPart(u))

\* The URL string carries a parameter named key.
HasParam(u, key) ==
    LET pairs == PairsOf(u)
    IN  \E i \in 1..Len(pairs) : pairs[i][1] = key

\* <base>/solr/<collection>/<handler>, the handler one encoded segment.
HandlerUrl(c) ==
    c.url.base \o "/solr/" \o SegmentEncode(c.collection) \o "/"
               \o SegmentEncode(c.request_handler)

\* A handler has been set: request_handler is no longer Client::new's "".
HandlerSet == client.request_handler # ""

RanOk == last.op = "run" /\ last.result = "Ok"
RanErr == last.op = "run" /\ last.result = "Err"

(* ------------------------------- claims ------------------------------- *)

\* C1 as stated, for a client whose handler has been set: after run() returns
\* Ok, url_str() is exactly <base>/solr/<collection>/<handler>, with no query
\* part at all.
C1_UrlWithoutQueryAfterOk ==
    RanOk /\ HandlerSet => url_str(client) = HandlerUrl(client)

\* C1, amended: a run() that returns Ok keeps base, path, collection and
\* handler and empties the query without removing it: url_str() is then
\* <base><path>? with no pair behind the "?", which is
\* <base>/solr/<collection>/<handler>? once a handler has been set; and run()
\* can be called again.
C1_ParamsClearedAfterOk ==
    /\ [][(last'.op = "run" /\ last'.result = "Ok") =>
            /\ client'.url.base = client.url.base
            /\ client'.url.path = client.url.path
            /\ client'.collection = client.collection
            /\ client'.request_handler = client.request_handler
            /\ url_str(client') = client.url.base \o client.url.path \o "?"
            /\ query_pairs(client'.url) = <<>>
            /\ (client.request_handler # "" =>
                    url_str(client') = HandlerUrl(client) \o "?")]_vars
    /\ [](RanOk => ENABLED Run)

\* C1 witness: a run() of a select with parameters has returned Ok.
C1_Witness ==
    /\ RanOk
    /\ last.request.url = "http://h:8983/solr/c/select?q=*%3A*&commit=true"
    /\ url_str(client) = "http://h:8983/solr/c/select?"

\* C2: a run() that returns Err (Network, NotFound, Syntax or Other) leaves
\* the URL (path and params), the payload and the handler as they were, so
\* that a repeated run() sends the same verb, URL and body.
C2_FailedRunChangesNothing ==
    [][(last'.op = "run" /\ last'.result = "Err") =>
          /\ last'.error.kind \in {"Network", "NotFound", "Syntax", "Other"}
          /\ client'.url = client.url
          /\ url_str(client') = url_str(client)
          /\ client'.payload = client.payload
          /\ client'.request_handler = client.request_handler
          /\ Request(client') = last'.request]_vars

\* C2 witness: a POST with parameters and a body was answered 404.
C2_Witness ==
    /\ RanErr
    /\ last.error.kind = "NotFound"
    /\ last.request.verb = "POST"
    /\ last.request.body # None
    /\ Len(query_pairs(client.url)) >= 1

\* C3 as stated, for a client whose handler has been set: after a run() that
\* fails, get_response() returns the default empty envelope, not the envelope
\* of an earlier successful run.
C3_ResponseClearedByFailedRun ==
    RanErr /\ HandlerSet =>
        get_response(client) = [ok |-> TRUE, value |-> DefaultSolrResponse]

\* C4: run() issues POST exactly when the payload held at the call is Empty
\* or Body, with the JSON value as body for Body and no body for Empty, and
\* GET exactly when the payload is None.
C4_VerbFromPayload ==
    [][last'.op = "run" =>
          /\ last'.request.verb \in {"GET", "POST"}
          /\ (last'.request.verb = "POST") <=> (client.payload.kind \in {"Empty", "Body"})
          /\ (last'.request.verb = "GET") <=> (client.payload.kind = "None")
          /\ (client.payload.kind = "Body") => last'.request.body = Some(client.payload.body)
          /\ (client.payload.kind # "Body") => last'.request.body = None]_vars

\* C4 witness: a run() with the Empty payload went out as a POST without body.
C4_Witness ==
    /\ last.op = "run"
    /\ client.payload = PayloadEmpty
    /\ last.request.verb = "POST"
    /\ last.request.body = None

\* C5: request_handler(h), in any state, sets the payload to None and
\* rewrites the path to exactly the three segments /solr/<collection>/<h>.
C5_RequestHandlerRewritesPath ==
    [][last'.op = "request_handler" =>
          /\ client'.payload = PayloadNone
          /\ client'.url.path = "/solr/" \o client.collection \o "/"
                                \o SegmentEncode(client'.request_handler)
          /\ Split(client'.url.path, "/")
                 = <<"", "solr", client.collection,
                     SegmentEncode(client'.request_handler)>>
          /\ client'.url.query = client.url.query]_vars

\* C5 witness: request_handler was called on a client that had run a create
\* (another handler in the path, a response stored).
C5_Witness ==
    /\ last.op = "request_handler"
    /\ client.request_handler = "mlt"
    /\ client.url.path = "/solr/c/mlt"
    /\ client.response # None
    /\ Len(query_pairs(client.url)) >= 1

FacetOnCount(pairs) == Cardinality({i \in 1..Len(pairs) : pairs[i] = <<"facet", "on">>})
HasFacetPair(pairs) ==
    \E i \in 1..Len(pairs) : pairs[i][1] \in {"facet_field", "facet_query"}

\* C7: in the URL the client holds and in the URL it last sent, facet=on
\* appears exactly once whenever a facet_field or facet_query pair is present.
C7_FacetOnExactlyOnce ==
    LET held == query_pairs(client.url)
        sent == PairsOf(last.request.url)
    IN  /\ HasFacetPair(held) => FacetOnCount(held) = 1
        /\ last.op = "run" /\ HasFacetPair(sent) => FacetOnCount(sent) = 1

\* C7 witness: a URL with both facet calls made was sent.
C7_Witness ==
    /\ last.op = "run"
    /\ PairsOf(last.request.url)
           = <<<<"facet", "on">>, <<"facet_query", "g:1">>, <<"facet_field", "f1">>>>

\* The pairs the calls of the builder ask for: the pairs given, with facet=on
\* in front of the first facet_field or facet_query.
RECURSIVE WithFacetOn(_, _)
WithFacetOn(cs, seen) ==
    IF cs = <<>> THEN <<>>
    ELSE IF Head(cs)[1] \in {"facet_field", "facet_query"} /\ ~seen
         THEN <<<<"facet", "on">>, Head(cs)>> \o WithFacetOn(Tail(cs), TRUE)
         ELSE <<Head(cs)>> \o WithFacetOn(Tail(cs), seen)

\* C8: the query run() sends is exactly the pairs appended since the last
\* successful run, in append order, duplicate keys kept, facet=on at the
\* place of the first facet call: the client holds exactly these pairs, and
\* run() sends the URL the client holds.
C8_QueryIsAppendedPairs ==
    /\ [](query_pairs(client.url) = WithFacetOn(calls, FALSE))
    /\ [][last'.op = "run" => last'.request.url = url_str(client)]_vars

\* C8 witness: q, then a facet call, were sent as q, facet=on, facet_field.
C8_Witness ==
    /\ last.op = "run"
    /\ last.request.url
           = "http://h:8983/solr/c/select?q=*%3A*&facet=on&facet_field=f1"

\* C9 as stated, for a client whose handler has been set: a successful run()
\* returns Some(Cursor) exactly when the URL it sent had a cursorMark
\* parameter, the cursor seeded with the response's nextCursorMark.
C9_CursorIffCursorMarkParam ==
    RanOk /\ HandlerSet =>
        /\ (last.cursor # None) <=> HasParam(last.request.url, "cursorMark")
        /\ last.cursor # None =>
               Some(last.cursor[1].cursor_mark) = last.reply.json[1].nextCursorMark

\* C10 as stated, for a client whose handler has been set: a run() on a URL
\* with cursorMark whose 200 response has no nextCursorMark, or a body that is
\* not JSON, completes with a result and yields no Cursor.
C10_NoMarkNoCursor ==
    (/\ last.op = "run"
     /\ HandlerSet
     /\ last.reply.transport_ok
     /\ last.reply.status = 200
     /\ HasParam(last.request.url, "cursorMark")
     /\ (last.reply.json = None \/ last.reply.json[1].nextCursorMark = None)) =>
        (last.result = "Ok" /\ last.cursor = None)

(* --------------------------- cursor claims ---------------------------- *)

\* The last call was a next() that sent a request.
NextSent == last.op = "next" /\ last.request.verb # ""

\* The last call was a next() whose page came back with the cursor mark it
\* had sent, the page decoding into the caller's type.
MarkRepeated ==
    /\ NextSent
    /\ last.reply.transport_ok
    /\ last.reply.status = 200
    /\ last.reply.json # None
    /\ last.reply.json[1].docs_typed
    /\ last.reply.json[1].nextCursorMark = SentMark(last.request)

\* C11 as stated: the next() call whose response repeats the cursor mark it
\* sent returns Ok(None) instead of the page.
C11_RepeatedMarkReturnsNone == MarkRepeated => last.result = "None"

C13_ExhaustedIsAbsorbing ==
    [][(last.op = "next" /\ last.result = "None") =>
           (last'.op = "next" /\ last'.result = "None" /\ last'.request = NoRequest)]_vars

\* C13 witness: Ok(None) was returned although the transport had a page with
\* a new cursor mark, or a failure, ready.
C13_Witness ==
    /\ last.op = "next"
    /\ last.result = "None"
    /\ cur[1].the_end
    /\ \/ ~last.reply.transport_ok
       \/ (last.reply.json # None
           /\ last.reply.json[1].nextCursorMark # Some(cur[1].cursor_mark))

\* The transport's reply makes a next() fail: a transport error, an error
\* status, or a page that does not decode into the caller's type.
FailingReply(reply) ==
    \/ ~reply.transport_ok
    \/ reply.status # 200
    \/ (reply.json # None /\ reply.json[1].envelope /\ ~reply.json[1].docs_typed)

\* C14: a next() that fails on a transport error, an error status or a typed
\* decode error leaves cursor_mark as it was and the_end unset, and the
\* next() invoked after it sends the same request, URL and cursor mark, as
\* the failed one.
C14_FailedNextCanBeRetried ==
    /\ [][(last'.op = "next" /\ last'.request.verb # "" /\ FailingReply(last'.reply)) =>
              /\ last'.result # "Some"
              /\ cur'[1].cursor_mark = cur[1].cursor_mark
              /\ ~cur'[1].the_end
              /\ next_request(cur'[1]) = last'.request]_vars
    /\ [][(last.op = "next" /\ last.result = "Err" /\ last'.op = "next") =>
              last'.request = last.request]_vars

\* C14 witness: after a first page, a next() failed on the typed decoding of
\* the second, the run() before it having cleared the client's params.
C14_Witness ==
    /\ pages.count = 1
    /\ last.op = "next"
    /\ last.result = "Err"
    /\ last.error.kind = "Serialization"
    /\ cur[1].client.url.query = Some("")

\* The pairs of the request next() sent against the pairs of the snapshot:
\* the same names in the same order, the same values but for the first
\* cursorMark pair; where the snapshot's value there is one character, the
\* value sent is the cursor mark.
OnlyMarkChanged(sent, snapshot, cursor_mark) ==
    LET first == CHOOSE i \in 1..Len(snapshot) :
                     /\ snapshot[i][1] = "cursorMark"
                     /\ \A j \in 1..(i - 1) : snapshot[j][1] # "cursorMark"
    IN  /\ Len(sent) = Len(snapshot)
        /\ \A i \in 1..Len(sent) :
               IF i = first
               THEN /\ sent[i][1] = "cursorMark"
                    /\ Len(snapshot[i][2]) = 1 => sent[i][2] = cursor_mark
               ELSE sent[i] = snapshot[i]

\* C15: every request of next() goes to the URL snapshotted on the first
\* next(), the same origin, path and pairs in the same order, only the value
\* of the cursorMark pair changed (to the cursor mark of that call where the
\* snapshot's value is one character, as the "*" of cursor() is); the embedded
\* client's params are cleared by each successful run in between.
C15_NextSendsSnapshot ==
    [][(last'.op = "next" /\ last'.request.verb # "") =>
           LET sent     == UrlParseStr(last'.request.url).url
               snapshot == cur'[1].url[1]
           IN  /\ cur[1].url # None => cur[1].url[1] = snapshot
               /\ sent.base = snapshot.base
               /\ sent.path = snapshot.path
               /\ last'.request.verb = "GET"
               /\ OnlyMarkChanged(query_pairs(sent), query_pairs(snapshot),
                                  cur[1].cursor_mark)
               /\ last'.result = "Some" => cur'[1].client.url.query = Some("")]_vars

\* C15 witness: the second page was asked for with q and the new cursor mark,
\* after the run of the first page had cleared the client's params.
C15_Witness ==
    /\ pages.count = 2
    /\ last.op = "next"
    /\ last.result = "Some"
    /\ last.request.url = "http://h:8983/solr/c/select?q=*%3A*&cursorMark=C"
    /\ cur[1].client.url.query = Some("")

\* pairs with the value of its first cursorMark pair replaced by m.
WithMark(pairs, m) ==
    [i \in 1..Len(pairs) |->
        IF pairs[i][1] = "cursorMark" /\ \A j \in 1..(i - 1) : pairs[j][1] # "cursorMark"
        THEN <<"cursorMark", m>> ELSE pairs[i]]

\* C16 as stated: update_cursor_mark(m) on a URL with a cursorMark pair, the
\* value of any length, leaves that pair as cursorMark=<m> and every other
\* pair as it was.
C16_WholeMarkReplaced ==
    [][(last'.op = "update_cursor_mark" /\ HasParam(url_str(client), "cursorMark")) =>
           /\ last'.result = "Ok"
           /\ query_pairs(client'.url) = WithMark(query_pairs(client.url), last'.arg)]_vars

\* C17 as stated: update_cursor_mark(m) on a URL without a cursorMark pair,
\* with other params or with no query at all, returns an InvalidState error
\* and leaves the URL as it was.
C17_NoMarkIsInvalidState ==
    [][(last'.op = "update_cursor_mark" /\ ~HasParam(url_str(client), "cursorMark")) =>
           /\ last'.result = "Err"
           /\ client'.url = client.url]_vars

\* C18 as stated: run() turns every outcome of the transport into one result:
\* Network for a transport failure, Ok for 200, NotFound for 404, Syntax with
\* the string at error.msg for another status with such a JSON body, Other
\* with the status and the body text for another status with a body that is
\* not JSON.
C18_RunClassifiesEveryOutcome ==
    last.op = "run" =>
        LET reply == last.reply
        IN  /\ ~reply.transport_ok => (last.result = "Err" /\ last.error = NetworkError)
            /\ (reply.transport_ok /\ reply.status = 200) => last.result = "Ok"
            /\ (reply.transport_ok /\ reply.status = 404) =>
                   (last.result = "Err" /\ last.error = NotFoundError)
            /\ (/\ reply.transport_ok
                /\ reply.status \notin {200, 404}
                /\ reply.json # None
                /\ reply.json[1].error_msg # None) =>
                   (last.result = "Err" /\ last.error = SyntaxError(reply.json[1].error_msg[1]))
            /\ (/\ reply.transport_ok
                /\ reply.status \notin {200, 404}
                /\ reply.json = None) =>
                   (last.result = "Err" /\ last.error = OtherError(reply.status, reply.text))

\* C19 as stated: a status other than 200 and 404 with a JSON body that has no
\* string at error.msg gives the error Other with the status and the body text.
C19_JsonWithoutMsgIsOther ==
    (/\ last.op = "run"
     /\ last.reply.transport_ok
     /\ last.reply.status \notin {200, 404}
     /\ last.reply.json # None
     /\ last.reply.json[1].error_msg = None) =>
        (last.result = "Err" /\ last.error = OtherError(last.reply.status, last.reply.text))

\* C20 as stated: no builder call aborts; only run() and get_response() can
\* fail.
C20_BuilderCallsNeverAbort ==
    last.op \notin {"run", "next"} => last.result # "Panic"

\* C21: a client holds no response until a run() got status 200 (the run()
\* then returned Ok, or aborted), and on a client that holds none
\* get_response(), for Value and for the caller's type, returns Ok with the
\* default envelope: response, facet_counts and nextCursorMark all None; so
\* does get_response() of a cursor wrapping such a client.
C21_DefaultEnvelopeBeforeAnyOkRun ==
    /\ (last.op = "new" => client.response = None)
    /\ [][(client.response = None /\ client'.response # None) =>
              /\ last'.op = "run"
              /\ last'.reply.transport_ok
              /\ last'.reply.status = 200
              /\ last'.result \in {"Ok", "Panic"}]_vars
    /\ [][(last'.op = "get_response" /\ client.response = None) =>
              /\ last'.result = "Ok"
              /\ last'.value = DefaultSolrResponse
              /\ last'.value.response = None
              /\ last'.value.facet_counts = None
              /\ last'.value.nextCursorMark = None
              /\ \A m \in Marks :
                     /\ cursor_get_response(CursorNew(client, m)) =
                            [ok |-> TRUE, value |-> DefaultSolrResponse]
                     /\ cursor_get_response_typed(CursorNew(client, m)) =
                            [ok |-> TRUE, value |-> DefaultSolrResponse]]_vars

\* C21 witness: get_response::<T>() has been called on a client that was
\* built into a select with parameters and holds no response.
C21_Witness ==
    /\ last.op = "get_response"
    /\ last.arg = "T"
    /\ last.result = "Ok"
    /\ client.response = None
    /\ client.request_handler = "select"
    /\ Len(calls) = MaxParams

\* The reply is a 200 whose JSON body is an envelope with docs that do not
\* decode into the caller's type T.
TypedDecodeFails(reply) ==
    /\ reply.transport_ok
    /\ reply.status = 200
    /\ reply.json # None
    /\ reply.json[1].envelope
    /\ ~reply.json[1].docs_typed

\* C22: docs that do not decode into T never make run() fail: run() on such
\* a 200 never returns Err and ends as it ends on the same body with docs
\* that decode, storing the body; get_response::<T>() then returns
\* Err(Serialization) and changes nothing, and get_response::<Value>() on the
\* same client returns Ok with the envelope of the stored body.
C22_DecodeFailureOnlyFromGetResponse ==
    /\ [][(last'.op = "run" /\ TypedDecodeFails(last'.reply)) =>
              /\ last'.result # "Err"
              /\ last'.result = run(client, Typed(last'.reply)).result
              /\ last'.error = NoError
              /\ (~has_cursor_mark(client) => last'.result = "Ok")
              /\ client'.response = last'.reply.json]_vars
    /\ [][last'.op = "get_response" =>
              /\ client' = client
              /\ (client.response # None /\ client.response[1].envelope) =>
                     IF last'.arg = "T" /\ ~client.response[1].docs_typed
                     THEN last'.result = "Err" /\ last'.error = SerializationError
                     ELSE /\ last'.result = "Ok"
                          /\ last'.value = from_value(client.response[1])]_vars
    /\ [][(/\ last.op = "get_response"
           /\ last.result = "Err"
           /\ last'.op = "get_response"
           /\ last'.arg = "Value") =>
              /\ last'.result = "Ok"
              /\ last'.value.response = Some(Page)]_vars

\* C22 witness: after a run() that returned Ok on docs that do not decode
\* into T, get_response::<T>() has returned Err(Serialization).
C22_Witness ==
    /\ last.op = "get_response"
    /\ last.arg = "T"
    /\ last.result = "Err"
    /\ last.error = SerializationError
    /\ client.response # None
    /\ client.response[1].envelope
    /\ ~client.response[1].docs_typed
    /\ query_pairs(client.url) = <<>>

\* The calls that assign payload, and the calls that only append a pair.
PayloadCalls ==
    {"set_document", "set_empty_payload", "clear_payload", "request_handler",
     "select", "create", "delete", "commit"}
ParamCalls ==
    {"add_query_param", "query", "cursor", "auto_commit", "facet_field",
     "facet_query"}

\* C23: a run() that returns Ok leaves payload as it was; payload changes
\* only in set_document, set_empty_payload, clear_payload or a handler switch
\* (request_handler, select, create, delete, commit); so across a run() that
\* returned Ok and across calls that only add parameters the next request
\* keeps its verb and body.
C23_PayloadSurvivesRun ==
    /\ [][(last'.op = "run" /\ last'.result = "Ok") =>
              client'.payload = client.payload]_vars
    /\ [][client'.payload # client.payload => last'.op \in PayloadCalls]_vars
    /\ [][((last'.op = "run" /\ last'.result = "Ok") \/ last'.op \in ParamCalls) =>
              /\ Request(client').verb = Request(client).verb
              /\ Request(client').body = Request(client).body]_vars

\* C23 witness: a run() that sent a document as a POST has returned Ok and
\* the client still holds the document as payload.
C23_Witness ==
    /\ RanOk
    /\ last.request.verb = "POST"
    /\ last.request.body = Some(JsonDoc(1))
    /\ client.payload = PayloadBody(JsonDoc(1))
    /\ Request(client).verb = "POST"

\* The path of <base>/solr/<collection>/<handler>, the handler one segment.
HandlerPath(collection, handler) ==
    "/solr/" \o SegmentEncode(collection) \o "/" \o SegmentEncode(handler)

\* C24: select(q), on whatever payload and handler it finds, leaves the
\* handler select, payload None and q=<q> appended behind the pairs that were
\* there; the request is then a GET to /solr/<collection>/select, and that is
\* what a run() called next sends.
C24_SelectFromAnyState ==
    /\ [][last'.op = "select" =>
              /\ client'.request_handler = "select"
              /\ client'.payload = PayloadNone
              /\ query_pairs(client'.url) =
                     Append(query_pairs(client.url), <<"q", "*:*">>)
              /\ client'.url.path = HandlerPath(client.collection, "select")
              /\ Request(client').verb = "GET"
              /\ Request(client').body = None]_vars
    /\ [][(last.op = "select" /\ last'.op = "run") =>
              /\ last'.request.verb = "GET"
              /\ last'.request.body = None
              /\ last'.request.url =
                     BaseUrl \o "/solr/c/select?" \o QueryPart(last'.request.url)
              /\ PairsOf(last'.request.url)[Len(PairsOf(last'.request.url))] =
                     <<"q", "*:*">>]_vars

\* C24 witness: select() has been called on a client that held commit=true,
\* and the request is a GET again.
C24_Witness ==
    /\ last.op = "select"
    /\ calls = <<(<<"commit", "true">>), (<<"q", "*:*">>)>>
    /\ url_str(client) = "http://h:8983/solr/c/select?commit=true&q=*%3A*"
    /\ client.payload = PayloadNone

\* C25: commit(), on whatever payload and handler it finds, leaves the
\* handler update, commit=true appended behind the pairs that were there and
\* payload Empty; the request is then a POST without body to
\* /solr/<collection>/update, and that is what a run() called next sends.
C25_CommitFromAnyState ==
    /\ [][last'.op = "commit" =>
              /\ client'.request_handler = "update"
              /\ client'.payload = PayloadEmpty
              /\ query_pairs(client'.url) =
                     Append(query_pairs(client.url), <<"commit", "true">>)
              /\ client'.url.path = HandlerPath(client.collection, "update")
              /\ Request(client').verb = "POST"
              /\ Request(client').body = None]_vars
    /\ [][(last.op = "commit" /\ last'.op = "run") =>
              /\ last'.request.verb = "POST"
              /\ last'.request.body = None
              /\ last'.request.url =
                     BaseUrl \o "/solr/c/update?" \o QueryPart(last'.request.url)
              /\ PairsOf(last'.request.url)[Len(PairsOf(last'.request.url))] =
                     <<"commit", "true">>]_vars

\* C25 witness: commit() has been called on a client that was a select with
\* its q, and the request is a POST to update.
C25_Witness ==
    /\ last.op = "commit"
    /\ calls = <<(<<"q", "*:*">>), (<<"commit", "true">>)>>
    /\ url_str(client) = "http://h:8983/solr/c/update?q=*%3A*&commit=true"
    /\ client.payload = PayloadEmpty

\* C26: create(doc) and delete(q) keep the pairs appended before them and
\* leave payload Body: create on the handler update/json/docs, one path
\* segment update%2Fjson%2Fdocs, with the document as body; delete on the
\* handler update with the body {"delete":{"query":q}}; a run() called next
\* sends a POST with that body.
C26_CreateDeleteKeepParams ==
    /\ [][last'.op = "create" =>
              /\ client'.request_handler = "update/json/docs"
              /\ \E d \in Documents : client'.payload = PayloadBody(d)
              /\ query_pairs(client'.url) = query_pairs(client.url)
              /\ client'.url.path = "/solr/c/update%2Fjson%2Fdocs"]_vars
    /\ [][last'.op = "delete" =>
              /\ client'.request_handler = "update"
              /\ client'.payload = PayloadBody(JsonDelete("*:*"))
              /\ query_pairs(client'.url) = query_pairs(client.url)
              /\ client'.url.path = "/solr/c/update"]_vars
    /\ [][(last.op \in {"create", "delete"} /\ last'.op = "run") =>
              /\ last'.request.verb = "POST"
              /\ last'.request.body = Some(client.payload.body)
              /\ last'.request.body =
                     Some(IF last.op = "create" THEN JsonDoc(1) ELSE JsonDelete("*:*"))
              /\ last'.request.url = url_str(client)]_vars

\* C26 witness: create() has been called behind auto_commit().
C26_Witness ==
    /\ last.op = "create"
    /\ calls = <<(<<"commit", "true">>)>>
    /\ url_str(client) = "http://h:8983/solr/c/update%2Fjson%2Fdocs?commit=true"
    /\ client.payload = PayloadBody(JsonDoc(1))

\* C28: the cursor's get_response() returns the envelope of the last page
\* the cursor holds: right after the run() that returned the cursor, what the
\* client's get_response() returns, the page of that run(); after a next()
\* that returned Ok(Some(env)), env, the page of that call.
C28_CursorHoldsLastPage ==
    /\ [][(last'.op = "run" /\ last'.cursor # None) =>
              /\ cursor_get_response(last'.cursor[1]) = get_response(client')
              /\ cursor_get_response(last'.cursor[1]) =
                     [ok |-> TRUE, value |-> from_value(last'.reply.json[1])]
              /\ cursor_get_response_typed(last'.cursor[1]) =
                     get_response_typed(client')]_vars
    /\ [][(last'.op = "next" /\ last'.result = "Some") =>
              /\ cursor_get_response(cur'[1]) = [ok |-> TRUE, value |-> last'.value]
              /\ cursor_get_response_typed(cur'[1]) =
                     [ok |-> TRUE, value |-> last'.value]
              /\ last'.value = from_value(last'.reply.json[1])]_vars

\* C28 witness: the cursor holds the page of its second next(), the client
\* the page of the run().
C28_Witness ==
    /\ pages.count = 2
    /\ last.op = "next"
    /\ last.result = "Some"
    /\ cursor_get_response(cur[1]).value.nextCursorMark = Some("C")
    /\ get_response(client).value.nextCursorMark = Some("B")

\* C29 as stated: every next() sends the nextCursorMark of the successful
\* response before it: the first the one of the run() that made the cursor,
\* each later one the one of the last next() that returned a page.
C29_MarksChained ==
    [][(last'.op = "next" /\ last'.request.verb # "") =>
           SentMark(last'.request) = pages.got]_vars

\* C27: a call on the client, builder call or run(), leaves the cursor as it
\* was, and with it the cursor's next request and get_response(); a next()
\* leaves the client as it was, params and response; and whatever was called
\* on the client since, every request of next() has the origin, path and
\* pairs of the request of the run() that made the cursor, the cursor mark
\* apart.
C27_CursorIsolatedFromClient ==
    /\ [][(cur # None /\ last'.op # "next") =>
              /\ cur' = cur
              /\ cursor_get_response(cur'[1]) = cursor_get_response(cur[1])]_vars
    /\ [][last'.op = "next" =>
              /\ client'.url = client.url
              /\ client'.response = client.response
              /\ client' = client]_vars
    /\ [][(last'.op = "next" /\ last'.request.verb # "") =>
              LET sent == UrlParseStr(last'.request.url).url
                  made == UrlParseStr(pages.made).url
              IN  /\ sent.base = made.base
                  /\ sent.path = made.path
                  /\ OnlyMarkChanged(query_pairs(sent), query_pairs(made),
                                     cur[1].cursor_mark)]_vars

\* C27 witness: the cursor was made by a run() on the bare URL with
\* cursorMark; select() was called on the client after that, and the cursor
\* has returned its second page from the URL of that run().
C27_Witness ==
    /\ pages.made = "http://h:8983/?cursorMark=*"
    /\ client.request_handler = "select"
    /\ calls # <<>>
    /\ pages.count = 2
    /\ last.op = "next"
    /\ last.result = "Some"
    /\ last.request.url = "http://h:8983/?cursorMark=C"

\* From every mark the server's answers reach, within as many pages as there
\* are marks, a mark that the server repeats.
RECURSIVE RepeatsWithin(_, _)
RepeatsWithin(m, n) ==
    \/ server[m] = m
    \/ (n > 0 /\ RepeatsWithin(server[m], n - 1))

Terminating == \A m \in Marks : RepeatsWithin(m, Cardinality(Marks))

\* The cursor's next request carries a cursor mark of the server's.
MarkKnown ==
    /\ cur # None
    /\ ~cur[1].the_end
    /\ SentMark(next_request(cur[1])) # None
    /\ SentMark(next_request(cur[1]))[1] \in Marks

Times(mods, op) == Cardinality({i \in 1..Len(mods) : mods[i] = op})

\* The place of the modifier op in a history that holds it once.
PlaceOf(mods, op) == CHOOSE i \in 1..Len(mods) : mods[i] = op

\* The histories the rendering rule speaks of: each modifier at most once,
\* not both prefixes, and a boost applied before a fuzziness.
Canonical(mods) ==
    /\ \A i \in 1..Len(mods) : Times(mods, mods[i]) = 1
    /\ Times(mods, "required") + Times(mods, "prohibit") <= 1
    /\ (Times(mods, "boost") = 1 /\ Times(mods, "tilde") = 1)
          => PlaceOf(mods, "boost") < PlaceOf(mods, "tilde")

\* [prefix][field: ]text[^boost][~fuzz] for the string s and the history
\* mods, text being s, in double quotes when it holds a space.
Rendering(s, mods) ==
    (IF Times(mods, "required") = 1 THEN "+" ELSE "")
    \o (IF Times(mods, "prohibit") = 1 THEN "-" ELSE "")
    \o (IF Times(mods, "in_field") = 1 THEN "f: " ELSE "")
    \o (IF Contains(s, " ") THEN "\"" \o s \o "\"" ELSE s)
    \o (IF Times(mods, "boost") = 1 THEN "^2" ELSE "")
    \o (IF Times(mods, "tilde") = 1 THEN "~3" ELSE "")

\* C31: a Term renders as [prefix][field: ]text[^boost][~fuzz], the + or -
\* prefix outermost, before the field: whichever modifiers were applied
\* (once each, boost before tilde), the rendering is the prefix, the field
\* with ": ", the text, the boost and the fuzziness, in this order.
C31_TermRendering ==
    Canonical(expr.mods) => term_as_str(expr.term) = Rendering(expr.from, expr.mods)

\* C31: the Term of the example, Term("a b").in_field("f").boost(2.0)
\* .tilde(3).required(), renders with the prefix behind the field.
C31_PrefixBehindField ==
    /\ expr.from = "a b"
    /\ expr.mods = <<"in_field", "boost", "tilde", "required">>
    /\ term_as_str(expr.term) = "f: +\"a b\"^2~3"

\* The parts from the i-th on, each behind one space (no space before the
\* first text), connectors as AND and OR, every subquery in parentheses.
RECURSIVE Joined(_, _, _)
Joined(parts, i, so_far) ==
    IF i > Len(parts) THEN so_far
    ELSE LET piece == IF parts[i].kind = "query"
                      THEN "(" \o Joined(parts[i].parts, 1, "") \o ")"
                      ELSE IF parts[i].kind = "and" THEN "AND"
                      ELSE IF parts[i].kind = "or" THEN "OR"
                      ELSE term_as_str(parts[i].term)
         IN  Joined(parts, i + 1,
                    IF so_far = "" THEN piece ELSE so_far \o " " \o piece)

\* C32: a composite Query renders its parts in insertion order, one space
\* between them, connectors as AND / OR and every nested subquery in
\* parentheses, for every composition, a subquery in a subquery and a
\* subquery behind parts that render empty included.
C32_QueryRendering ==
    query_as_str(expr.query) = Joined(expr.query, 1, "")

\* C32: Query::from_term(Term::from_str("")).subquery(Query::from_term(
\* Term::from_str("t"))) renders its subquery without parentheses.
C32_BareSubquery ==
    /\ expr.query = subquery(from_term(from_str("")), from_term(from_str("t")))
    /\ query_as_str(expr.query) = "t"

(* --------------------------- transport claims ------------------------- *)

\* The step is a call of run(), a call of next().
RunStep == last'.op = "run" /\ vars' # vars
NextStep == cur # None /\ last'.op = "next" /\ <<cur, pages, last>>' # <<cur, pages, last>>

\* C33: no retry. A run() sends one request, the one the client holds, and a
\* transport failure is the error of that very call; a next() on a cursor
\* that is not exhausted sends one request, the next page's, and a failure
\* is likewise its error; a next() on an exhausted cursor sends none and
\* leaves the cursor as it was.
C33_NoRetry ==
    [][/\ RunStep =>
            /\ last'.request = Request(client)
            /\ last'.request # NoRequest
            /\ last'.reply = NetworkFailure
                  => last'.result = "Err" /\ last'.error = NetworkError
       /\ (NextStep /\ ~cur[1].the_end) =>
            /\ last'.request = next_request(cur[1])
            /\ last'.request # NoRequest
            /\ last'.reply = NetworkFailure
                  => last'.result = "Err" /\ last'.error = NetworkError
       /\ (cur # None /\ cur[1].the_end /\ last'.op = "next") =>
            /\ last'.request = NoRequest
            /\ last'.result = "None"
            /\ cur' = cur
            /\ pages' = pages]_vars

\* C33: two pages got, the cursor exhausted, and next() called on it again.
C33_Witness ==
    /\ cur # None
    /\ cur[1].the_end
    /\ last.op = "next"
    /\ last.result = "None"
    /\ pages.count >= 2

(* ---------------------------- params claims --------------------------- *)

\* The serialized pairs of a URL, pair after pair with "&" between them (a
\* "&" inside a key or a value is encoded).
QueryText(u) == IF u.query = None THEN "" ELSE u.query[1]

\* The pairs serialized as old are the first pairs of those serialized as
\* new, in the same order.
FirstPairsOf(old, new) ==
    \/ old = ""
    \/ new = old
    \/ Len(new) > Len(old) /\ SubSeq(new, 1, Len(old) + 1) = old \o "&"

\* C34: between two successful runs the params only grow: whatever is called,
\* a run() that returns Ok apart, the pairs the client held are the first
\* pairs it holds afterwards, in the same order; a run() that returns Ok is
\* what empties them.
C34_ParamsOnlyGrow ==
    [][/\ ~(last'.op = "run" /\ last'.result = "Ok")
            => FirstPairsOf(QueryText(client.url), QueryText(client'.url))
       /\ ~FirstPairsOf(QueryText(client.url), QueryText(client'.url))
            => last'.op = "run" /\ last'.result = "Ok" /\ QueryText(client'.url) = ""]_vars

\* C34: a parameter added before delete() and a q left from a select() that
\* was never run are in the request of a run().
C34_Witness ==
    /\ last.op = "run"
    /\ Len(calls) = 2
    /\ calls[2] = <<"q", "*:*">>
    /\ client.request_handler = "update"
    /\ query_pairs(UrlParseStr(last.request.url).url) = calls

\* C35: url_str() and get_response() are read-only: a call of either leaves
\* the client (params, handler, payload, stored response) as it was and
\* returns what the client holds, so that a second call in a row returns
\* what the first returned.
C35_ReadOnly ==
    [][/\ last'.op = "url_str" =>
            /\ client' = client
            /\ last'.text = url_str(client)
            /\ last.op = "url_str" => last'.text = last.text
       /\ last'.op = "get_response" =>
            /\ client' = client
            /\ last'.value = (IF last'.arg = "Value" THEN get_response(client)
                              ELSE get_response_typed(client)).value
            /\ (last.op = "get_response" /\ last.arg = last'.arg)
                  => last'.value = last.value /\ last'.result = last.result]_vars

\* C35: get_response() called after get_response::<T>() on a stored page,
\* and returning it.
C35_Witness ==
    /\ last.op = "get_response"
    /\ last.arg = "Value"
    /\ last.result = "Ok"
    /\ last.value # DefaultSolrResponse
    /\ client.response # None
    /\ Len(calls) = 1

(* ---------------------------- status claims --------------------------- *)

\* The last call was a run() answered with status 200 and a body that is
\* not JSON, for a URL in which cursorMark does not occur.
RanOnUnparseableOk ==
    /\ last.op = "run"
    /\ last.reply.transport_ok
    /\ last.reply.status = 200
    /\ last.reply.json = None
    /\ ~Contains(last.request.url, "cursorMark")

\* C36: a 200 whose body is not valid JSON, on a URL without cursorMark, is a
\* success: run() returns Ok(None), the params are cleared and no response
\* is stored, whatever was stored before, so that get_response() returns the
\* default empty envelope.
C36_UnparseableOkIsSuccess ==
    RanOnUnparseableOk =>
        /\ last.result = "Ok"
        /\ last.cursor = None
        /\ query_pairs(client.url) = <<>>
        /\ client.response = None
        /\ get_response(client) = [ok |-> TRUE, value |-> DefaultSolrResponse]
        /\ get_response_typed(client) = [ok |-> TRUE, value |-> DefaultSolrResponse]

\* C36: such a run() of a request with params has returned.
C36_Witness ==
    /\ RanOnUnparseableOk
    /\ Len(query_pairs(UrlParseStr(last.request.url).url)) = 2
    /\ client.response = None

\* C37: run() returns a Syntax or Other error only for a status outside the
\* 2xx range: a 2xx status other than 200 is never reported as Syntax or
\* Other.
C37_ErrorsOnlyOutside2xx ==
    (last.op = "run" /\ last.result = "Err" /\ last.error.kind \in {"Syntax", "Other"})
        => ~(last.reply.status >= 200 /\ last.reply.status < 300)

\* C37: a run() answered with 204 and no body has returned Other.
C37_NoContentIsOther ==
    /\ last.op = "run"
    /\ last.reply = NoContentReply
    /\ last.result = "Err"
    /\ last.error = OtherError(204, "")

(* ----------------------------- facet claims --------------------------- *)

\* The places of the array a that hold the string key.
PlacesOf(a, key) == {i \in 1..Len(a) : a[i].kind = "str" /\ a[i].str = key}

\* The first of them.
FirstPlaceOf(a, key) == CHOOSE i \in PlacesOf(a, key) : \A j \in PlacesOf(a, key) : i <= j

\* C38: get(key), after field(name), returns Some(count), count the element
\* right behind the first string element equal to key in the array of the
\* field name, and returns None, never aborting, when the field is absent,
\* when the key does not occur, or when no count follows it: for every
\* array content, a key in last position included.
C38_GetReturnsCountOrNone ==
    (facets.op = "get" /\ facets.fields.field # "") =>
        LET a == facets.fields.array
            k == facets.key
        IN  /\ facets.got.result # "Panic"
            /\ (facets.fields.field # facets.fields.name \/ PlacesOf(a, k) = {})
                  => facets.got = Got("None", 0)
            /\ (/\ facets.fields.field = facets.fields.name
                /\ PlacesOf(a, k) # {}
                /\ FirstPlaceOf(a, k) < Len(a)
                /\ a[FirstPlaceOf(a, k) + 1].kind = "num")
                  => facets.got = Got("Some", a[FirstPlaceOf(a, k) + 1].num)

\* C38: get("b") has aborted on the array ["a", 7, "b"] of the field
\* selected.
C38_KeyInLastPlaceAborts ==
    /\ facets.op = "get"
    /\ facets.fields.field = "f"
    /\ facets.fields.array = <<JsonStr("a"), JsonNum(7), JsonStr("b")>>
    /\ facets.key = "b"
    /\ facets.got.result = "Panic"

====
